---------------------------- MODULE Spec2Model ----------------------------
(***************************************************************************)
(* A model of TutorialLLM (src/model.py) and of the earlier script version *)
(* BigramLanguageModel (src/run.py): the shapes computed by the forward    *)
(* pass, the autoregressive generation loop and the DPO wrapper.           *)
(*                                                                         *)
(* Tensors are modelled by what the claims need of them: a token batch is  *)
(* a sequence of B rows of token ids, a shape is a sequence of dimension   *)
(* sizes, a loss tensor is a sequence of fixed-point numbers.  The learned *)
(* parameters of a model are abstracted to a table that gives the          *)
(* cross-entropy of a label after a token; everything the code does with   *)
(* the values the library hands back is modelled as written.               *)
(***************************************************************************)
EXTENDS Integers, Naturals, Sequences, FiniteSets, TLC

(***************************************************************************)
(* Bounds of the model.                                                    *)
(***************************************************************************)
MaxVocab == 2            \* token ids are 0 .. MaxVocab - 1
MaxBatch == 2            \* batch sizes 1 .. MaxBatch
MaxPromptLen == 3        \* prompt lengths 1 .. MaxPromptLen
MaxContext == 2          \* max_length is 1 .. MaxContext
MaxNewTokens == 3        \* max_new_tokens is 0 .. MaxNewTokens
MaxGenTokens == 3        \* generate gets prompts of B * T <= MaxGenTokens
MaxFwdTokens == 2        \* forward is applied to batches of B * T <= MaxFwdTokens
MaxDpoTokens == 2        \* DpoWrapper.forward gets batches of B * T <= MaxDpoTokens
MaxLoss == 2             \* the cross-entropy of one token is 0 .. MaxLoss
MaxParam == 1            \* parameter tables are numbered 0 .. MaxParam
MaxUpdates == 1          \* optimizer steps taken on the aligned model
MaxDimEmbed == 4         \* the constructor gets dim_embed in 1 .. MaxDimEmbed
MaxHeads == 3            \* the constructor gets num_head in 1 .. MaxHeads
MaxLayers == 2           \* the constructor gets num_layer in 0 .. MaxLayers

Tokens == 0 .. (MaxVocab - 1)

\* Token batches of shape (B, T) over a vocabulary of V tokens: B rows of the
\* same length T.
BatchesOver(V, B, T) == [1 .. B -> [1 .. T -> 0 .. (V - 1)]]

Batches(B, T) == BatchesOver(MaxVocab, B, T)

Max(a, b) == IF a >= b THEN a ELSE b
Min(a, b) == IF a <= b THEN a ELSE b

VARIABLES
    model,                \* the constructed TutorialLLM: its configuration
    pc,                   \* position of the running call
    err,                  \* the exception raised by the call, "none" if none
    prompt,               \* generate: the token_ids argument as passed in
    max_new_tokens,       \* generate: the max_new_tokens argument
    token_ids,            \* generate: the running sequence (local token_ids)
    iter,                 \* generate: iterations of the for loop started
    token_ids_available,  \* generate: input of the latest forward pass
    sampled,              \* generate: every idx_next drawn, in order
    forward_calls,        \* generate: number of forward passes run
    result,               \* generate: the returned tensor, <<>> before return
    fwd_args,             \* forward: the arguments of the call
    fwd_out,              \* forward: <<>>, or <<what the call returned>>
    heap,                 \* parameter storage: heap[a] is the table stored at a
    aligned_model,        \* DpoWrapper.aligned_model: an address of heap
    reference_model,      \* DpoWrapper.reference_model: an address of heap
    beta,                 \* DpoWrapper.beta, in tenths
    positive_weight,      \* DpoWrapper.positive_weight, in tenths
    negative_weight,      \* DpoWrapper.negative_weight, in tenths
    snapshot,             \* the parameters of the model when it was wrapped
    updates,              \* optimizer steps taken since the wrapper was built
    dpo_out,              \* DpoWrapper.forward: <<>>, or <<the latest call>>
    ctor_args,            \* TutorialLLM(...): the arguments of the constructor
    attn_args,            \* AttentionHead.forward: the head and its input
    attn_out              \* AttentionHead.forward: <<>>, or <<the masked weights>>

genVars == <<prompt, max_new_tokens, token_ids, iter, token_ids_available,
             sampled, forward_calls, result>>

fwdVars == <<fwd_args, fwd_out>>

dpoVars == <<heap, aligned_model, reference_model, beta, positive_weight,
             negative_weight, snapshot, updates, dpo_out>>

blockVars == <<ctor_args, attn_args, attn_out>>

vars == <<model, pc, err, genVars, fwdVars, dpoVars, blockVars>>

\* The variables of generate, of a single forward call and of the DPO wrapper
\* while no such call is running.
GenIdle ==
    /\ prompt = <<>> /\ max_new_tokens = 0 /\ token_ids = <<>> /\ iter = 0
    /\ token_ids_available = <<>> /\ sampled = <<>> /\ forward_calls = 0
    /\ result = <<>>

FwdIdle == fwd_args = <<>> /\ fwd_out = <<>>

DpoIdle ==
    /\ heap = <<>> /\ aligned_model = 0 /\ reference_model = 0 /\ beta = 0
    /\ positive_weight = 0 /\ negative_weight = 0 /\ snapshot = <<>>
    /\ updates = 0 /\ dpo_out = <<>>

BlockIdle == ctor_args = <<>> /\ attn_args = <<>> /\ attn_out = <<>>


(***************************************************************************)
(* Shapes.  A shape is the sequence of dimension sizes of a tensor; the    *)
(* shape of a scalar is <<>>.  ShapeError stands for the exception the     *)
(* tensor library raises on mismatching dimensions.                        *)
(***************************************************************************)
ShapeError == <<-1>>

\* nn.Linear(in_features, out_features) applied to a tensor of shape s.
LinearShape(s, in_features, out_features) ==
    IF s = ShapeError \/ Len(s) = 0 \/ s[Len(s)] # in_features
    THEN ShapeError
    ELSE [s EXCEPT ![Len(s)] = out_features]

\* nn.LayerNorm(dim) applied to a tensor of shape s.
LayerNormShape(s, dim) ==
    IF s = ShapeError \/ Len(s) = 0 \/ s[Len(s)] # dim THEN ShapeError ELSE s

\* a + b for two tensors of the shapes the model adds (equal ranks).
AddShape(a, b) ==
    IF a = ShapeError \/ b = ShapeError \/ a # b THEN ShapeError ELSE a

\* AttentionHead.forward: (B, T, dim_embed) -> (B, T, head_size).  The mask
\* tril[:T, :T] has min(T, max_length) rows and must fit the (B, T, T) scores
\* (a mask of one row and column is broadcast).
AttentionHeadShape(s, dim_embed, head_size, max_length) ==
    LET key == LinearShape(s, dim_embed, head_size)
    IN  IF key = ShapeError \/ Min(s[2], max_length) \notin {s[2], 1}
        THEN ShapeError
        ELSE <<s[1], s[2], head_size>>

\* MultiHeadAttention.forward: concatenate num_heads heads, project back.
MultiHeadAttentionShape(s, dim_embed, num_heads, head_size, max_length) ==
    LET head == AttentionHeadShape(s, dim_embed, head_size, max_length)
        cat  == IF head = ShapeError THEN ShapeError
                ELSE <<head[1], head[2], head_size * num_heads>>
    IN  LinearShape(cat, head_size * num_heads, dim_embed)

\* FeedForward.forward: dim_embed -> 4 * dim_embed -> dim_embed.
FeedForwardShape(s, dim_embed) ==
    LinearShape(LinearShape(s, dim_embed, 4 * dim_embed), 4 * dim_embed, dim_embed)

\* TranformerBlock: head_size = dim_embed // num_heads, two residual streams.
TranformerBlockShape(s, dim_embed, num_heads, max_length) ==
    LET head_size == dim_embed \div num_heads
        FeedForwardResidual(output) ==
            AddShape(output, FeedForwardShape(LayerNormShape(output, dim_embed), dim_embed))
    \* the attention residual is computed once and handed to the second stream
    IN  CHOOSE out \in {FeedForwardResidual(output) : output \in
                {AddShape(s, MultiHeadAttentionShape(LayerNormShape(s, dim_embed),
                                 dim_embed, num_heads, head_size, max_length))}} : TRUE

RECURSIVE TransformerBlocksShape(_, _, _)
\* nn.Sequential of num_layer blocks.
TransformerBlocksShape(s, m, n) ==
    IF n = 0 THEN s
    ELSE TransformerBlocksShape(
             TranformerBlockShape(s, m.dim_embed, m.num_head, m.max_length), m, n - 1)

(***************************************************************************)
(* Numbers.  Loss values are integers (fixed point); a mean is kept as an  *)
(* exact fraction in lowest terms.                                         *)
(***************************************************************************)
RECURSIVE Gcd(_, _)
Gcd(a, b) == IF b = 0 THEN a ELSE Gcd(b, a % b)

Abs(a) == IF a < 0 THEN -a ELSE a

\* The fraction n / d (d > 0) in lowest terms.
Frac(n, d) == LET g == Gcd(Abs(n), d) IN [num |-> n \div g, den |-> d \div g]

RECURSIVE SumSeq(_)
SumSeq(s) == IF Len(s) = 0 THEN 0 ELSE s[1] + SumSeq(Tail(s))

\* Tensor.mean() of a one-dimensional tensor.
Mean(s) == Frac(SumSeq(s), Len(s))

(***************************************************************************)
(* TutorialLLM.forward.  labels = NoLabels stands for labels=None.         *)
(* params is the parameter table of the model: params[tok][label] is the   *)
(* cross-entropy the model gives label after tok.                          *)
(***************************************************************************)
NoLabels == <<>>

\* The k-th parameter table: a cross-entropy for every (token, label) pair.
ParamTable(k) ==
    [tok \in Tokens |-> [label \in Tokens |->
        (k * (1 + tok + label) + label) % (MaxLoss + 1)]]

\* The values the learned parameters of a model take in this model.
ParamTables == {ParamTable(k) : k \in 0 .. MaxParam}

\* tensor.view(B * T): the rows of a (B, T) batch one after the other.
Flatten(batch, B, T) ==
    [e \in 1 .. (B * T) |-> batch[((e - 1) \div T) + 1][((e - 1) % T) + 1]]

\* F.cross_entropy(logits, labels, reduce=False): one loss per example of the
\* flattened batch.
CrossEntropy(params, flat_ids, flat_labels) ==
    [e \in 1 .. Len(flat_ids) |-> params[flat_ids[e]][flat_labels[e]]]

\* The logits forward returns: with labels the local name logits is rebound
\* to logits.view(B * T, vocabulary_size) before the return.
ReturnedLogitsShape(logits, labels) ==
    IF labels = NoLabels
    THEN logits
    ELSE <<logits[1] * logits[2], logits[3]>>

\* The reduced loss summed over the examples (reduction='sum'), not averaged.
ReturnedLossSummed(per_example, labels, reduce_loss) ==
    IF labels = NoLabels THEN [kind |-> "None", shape |-> <<>>, val |-> <<>>]
    ELSE IF reduce_loss
         THEN [kind |-> "scalar", shape |-> <<>>,
               val |-> <<Frac(SumSeq(per_example), 1)>>]
         ELSE [kind |-> "vector", shape |-> <<Len(per_example)>>, val |-> per_example]

\* The loss forward returns: None, the mean (reduce_loss) or one per example.
ReturnedLoss(per_example, labels, reduce_loss) ==
    IF labels = NoLabels THEN [kind |-> "None", shape |-> <<>>, val |-> <<>>]
    ELSE IF reduce_loss
         THEN [kind |-> "scalar", shape |-> <<>>, val |-> <<Mean(per_example)>>]
         ELSE [kind |-> "vector", shape |-> <<Len(per_example)>>, val |-> per_example]

Forward(m, params, ids, labels, reduce_loss) ==
    LET B == Len(ids)
        T == Len(ids[1])
        token_embedding == <<B, T, m.dim_embed>>
        \* position_embedding_table(arange(T)) indexes rows 0 .. T-1 of a
        \* table of max_length rows
        position_ok == T <= m.max_length
        Logits(embedding) == LinearShape(LayerNormShape(embedding, m.dim_embed),
                                        m.dim_embed, m.vocabulary_size)
        Returned(logits) ==
            IF logits = ShapeError
            THEN [err |-> "RuntimeError: shape", logits_shape |-> ShapeError,
                  loss |-> ReturnedLoss(<<>>, NoLabels, reduce_loss)]
            ELSE [err |-> "none",
                  logits_shape |-> ReturnedLogitsShape(logits, labels),
                  loss |-> ReturnedLoss(
                              IF labels = NoLabels THEN <<>>
                              ELSE CrossEntropy(params, Flatten(ids, B, T),
                                                Flatten(labels, B, T)),
                              labels, reduce_loss)]
    IN  IF ~position_ok
        THEN [err |-> "IndexError", logits_shape |-> ShapeError,
              loss |-> ReturnedLoss(<<>>, NoLabels, reduce_loss)]
        \* each layer's output is computed once and handed to the next
        ELSE CHOOSE out \in
                 {Returned(logits) : logits \in
                     {Logits(embedding) : embedding \in
                         {TransformerBlocksShape(token_embedding, m, m.num_layer)}}} : TRUE


(***************************************************************************)
(* TutorialLLM.generate (and BigramLanguageModel.generate, the same loop   *)
(* with block_size for max_length).  The parameter table plays no part in  *)
(* which tokens can be drawn: softmax gives every token a positive         *)
(* probability, so multinomial can return any token id.                    *)
(***************************************************************************)
\* The slice left out: the whole row goes to the forward pass.
CropRowMissing(row, max_length) == row

\* row[-max_length:] as Python slices it.
CropRow(row, max_length) ==
    IF max_length = 0 THEN row
    ELSE SubSeq(row, Max(Len(row) - max_length, 0) + 1, Len(row))

\* token_ids[:, -self.max_length:]
Crop(ids, max_length) == [b \in DOMAIN ids |-> CropRow(ids[b], max_length)]

\* The two arguments of torch.cat swapped: torch.cat((idx_next, token_ids), dim=1)
CatSwapped(ids, idx_next) == [b \in DOMAIN ids |-> <<idx_next[b]>> \o ids[b]]

\* torch.cat((token_ids, idx_next), dim=1)
Cat(ids, idx_next) == [b \in DOMAIN ids |-> Append(ids[b], idx_next[b])]

\* range(max_new_tokens - 1): the loop gives up one iteration early
LoopContinuesOneFewer(i, n) == i < n - 1

\* range(max_new_tokens + 1): one iteration too many
LoopContinuesOneMore(i, n) == i <= n

\* for _ in range(max_new_tokens): another iteration starts
LoopContinues(i, n) == i < n

\* idx_next.item() raises unless the tensor holds exactly one element.
ItemRaises(idx_next) == Len(idx_next) # 1

\* The stop test against the wrong token id: if idx_next.item() == 1
IsEndOfSequenceWrongId(idx_next) == idx_next[1] = 1

\* if idx_next.item() == 0: break
IsEndOfSequence(idx_next) == idx_next[1] = 0

AnyParams == ParamTable(0)

\* One iteration of the for loop: crop, forward, sample, append, stop test.
GenStep ==
    /\ pc = "generate"
    /\ LoopContinues(iter, max_new_tokens)
    /\ \E available \in {Crop(token_ids, model.max_length)} :
       \E out \in {Forward(model, AnyParams, available, NoLabels, TRUE)} :
           /\ token_ids_available' = available
           /\ forward_calls' = forward_calls + 1
           /\ iter' = iter + 1
           /\ IF out.err # "none"
              THEN /\ pc' = "raised"
                   /\ err' = out.err
                   /\ UNCHANGED <<token_ids, sampled>>
              ELSE \E idx_next \in [1 .. Len(token_ids) -> 0 .. (out.logits_shape[3] - 1)] :
                   /\ token_ids' = Cat(token_ids, idx_next)
                   /\ sampled' = Append(sampled, idx_next)
                   /\ IF ItemRaises(idx_next)
                      THEN pc' = "raised" /\ err' = "RuntimeError: item"
                      ELSE /\ pc' = IF IsEndOfSequence(idx_next) THEN "break" ELSE "generate"
                           /\ UNCHANGED err
    /\ UNCHANGED <<model, prompt, max_new_tokens, result, fwdVars, dpoVars, blockVars>>

\* The stop test applied to the running sequence: generate also returns when
\* the sequence it holds already ends with token id 0.
GenReturnOnTrailingEos ==
    /\ \/ pc = "break"
       \/ pc = "generate" /\ ~LoopContinues(iter, max_new_tokens)
       \/ pc = "generate" /\ Len(token_ids) = 1
                          /\ token_ids[1][Len(token_ids[1])] = 0
    /\ result' = token_ids
    /\ pc' = "returned"
    /\ UNCHANGED <<model, err, prompt, max_new_tokens, token_ids, iter,
                   token_ids_available, sampled, forward_calls, fwdVars, dpoVars, blockVars>>

\* return token_ids, after the break or when the range is exhausted.
GenReturn ==
    /\ \/ pc = "break"
       \/ pc = "generate" /\ ~LoopContinues(iter, max_new_tokens)
    /\ result' = token_ids
    /\ pc' = "returned"
    /\ UNCHANGED <<model, err, prompt, max_new_tokens, token_ids, iter,
                   token_ids_available, sampled, forward_calls, fwdVars, dpoVars, blockVars>>

\* The shapes (B, T) of the prompts generate is called with.
GenShapes ==
    {bt \in (1 .. MaxBatch) \X (1 .. MaxPromptLen) : bt[1] * bt[2] <= MaxGenTokens}

\* The model configurations of a generate run.
GenModels ==
    [vocabulary_size : {MaxVocab}, dim_embed : {2}, max_length : 1 .. MaxContext,
     num_head : {2}, num_layer : {1}]

GenInit ==
    /\ model \in GenModels
    /\ pc = "generate"
    /\ err = "none"
    /\ \E bt \in GenShapes : prompt \in Batches(bt[1], bt[2])
    /\ max_new_tokens \in 0 .. MaxNewTokens
    /\ token_ids = prompt
    /\ iter = 0
    /\ token_ids_available = <<>>
    /\ sampled = <<>>
    /\ forward_calls = 0
    /\ result = <<>>
    /\ FwdIdle
    /\ DpoIdle
    /\ BlockIdle

GenNext == GenStep \/ GenReturn

SpecGen == GenInit /\ [][GenNext]_vars

\* The call runs to its end: the interpreter executes the loop and the return
\* without waiting for anything.
SpecGenFair == SpecGen /\ WF_vars(GenNext)


(***************************************************************************)
(* A single call of TutorialLLM.forward on a batch of shape (B, T), with   *)
(* or without labels of the same shape.                                    *)
(***************************************************************************)
\* The shapes (B, T) of the batches forward is applied to.
FwdShapes ==
    {bt \in (1 .. MaxBatch) \X (1 .. MaxPromptLen) : bt[1] * bt[2] <= MaxFwdTokens}

\* The model configurations forward is applied with.
FwdModels ==
    [vocabulary_size : {MaxVocab}, dim_embed : {2, 3}, max_length : 1 .. MaxContext,
     num_head : {1, 2}, num_layer : {1}]

FwdInit ==
    /\ model \in FwdModels
    /\ pc = "forward"
    /\ err = "none"
    /\ \E bt \in FwdShapes :
          fwd_args \in [token_ids : Batches(bt[1], bt[2]),
                        labels : {NoLabels} \cup Batches(bt[1], bt[2]),
                        reduce_loss : BOOLEAN,
                        params : ParamTables]
    /\ fwd_out = <<>>
    /\ GenIdle
    /\ DpoIdle
    /\ BlockIdle

\* self(token_ids, labels, reduce_loss)
FwdCall ==
    /\ pc = "forward"
    /\ LET out == Forward(model, fwd_args.params, fwd_args.token_ids,
                          fwd_args.labels, fwd_args.reduce_loss)
       IN  IF out.err # "none"
           THEN pc' = "raised" /\ err' = out.err /\ UNCHANGED fwd_out
           ELSE pc' = "returned" /\ fwd_out' = <<out>> /\ UNCHANGED err
    /\ UNCHANGED <<model, fwd_args, genVars, dpoVars, blockVars>>

\* The same call once more with the reduction flag the other way round, as
\* DpoWrapper.forward (reduce_loss False) and the training loop (default True)
\* both call the model on their batches.
FwdCallOtherReduction ==
    /\ pc = "returned"
    /\ Len(fwd_out) = 1
    /\ LET out == Forward(model, fwd_args.params, fwd_args.token_ids,
                          fwd_args.labels, ~fwd_args.reduce_loss)
       IN  fwd_out' = Append(fwd_out, out)
    /\ UNCHANGED <<model, pc, err, fwd_args, genVars, dpoVars, blockVars>>

FwdNext == FwdCall \/ FwdCallOtherReduction

SpecFwd == FwdInit /\ [][FwdNext]_vars

(***************************************************************************)
(* DpoWrapper.  beta and the two weights are floats in the code; here they *)
(* are kept in tenths (Scale), so that a reward margin is a number of      *)
(* tenths of a loss unit and beta * reward_margin a number of hundredths.  *)
(***************************************************************************)
Scale == 10

\* The values of beta and positive_weight the wrapper is built with, in
\* tenths; the code accepts any float for either.
Betas == {1, 5}
PositiveWeights == {0, 8, 12}

\* copy.copy(model): a new module object that shares the parameter storage.
ShallowCopy(h, a) == [heap |-> h, addr |-> a]

\* A newly initialised model in place of a copy: fresh storage holding other
\* parameters than the wrapped model's.
NewModelNoCopy(h, a) ==
    [heap |-> Append(h, CHOOSE p \in ParamTables : p # h[a]), addr |-> Len(h) + 1]

\* copy.deepcopy(model): the parameters are copied to fresh storage.
DeepCopy(h, a) == [heap |-> Append(h, h[a]), addr |-> Len(h) + 1]

\* a - b, a + b and k * a on one-dimensional tensors of equal length.
VecSub(a, b) == [i \in 1 .. Len(a) |-> a[i] - b[i]]
VecAdd(a, b) == [i \in 1 .. Len(a) |-> a[i] + b[i]]
VecScale(k, a) == [i \in 1 .. Len(a) |-> k * a[i]]

\* F.logsigmoid(x) in millionths for x = a / 100: the Taylor polynomial of
\* degree 4 of log(1 / (1 + exp(-x))) about 0, where it is log(0.5).
LogSigmoid(a) ==
    (0 - 693147) + 5000 * a - ((25 * a * a) \div 2) + ((a * a * a * a) \div 19200)

\* negative_reward = reference_negative_loss - negative_loss: the difference
\* taken the wrong way round.
NegativeRewardReversed(negative_loss, reference_negative_loss) ==
    VecSub(reference_negative_loss, negative_loss)

\* positive_reward = reference_positive_loss - positive_loss
PositiveReward(positive_loss, reference_positive_loss) ==
    VecSub(reference_positive_loss, positive_loss)

\* negative_reward = negative_loss - reference_negative_loss
NegativeReward(negative_loss, reference_negative_loss) ==
    VecSub(negative_loss, reference_negative_loss)

\* reward_margin = self.positive_weight * positive_reward
\*                 + self.negative_weight * negative_reward
RewardMargin(pw, nw, positive_reward, negative_reward) ==
    VecAdd(VecScale(pw, positive_reward), VecScale(nw, negative_reward))

\* loss = - F.logsigmoid(self.beta * reward_margin).mean(), in millionths
DpoLoss(b, reward_margin) ==
    LET m == Mean([i \in 1 .. Len(reward_margin) |-> LogSigmoid(b * reward_margin[i])])
    IN  [num |-> 0 - m.num, den |-> m.den]

\* The shapes (B, T) of the batches DpoWrapper.forward is applied to.
DpoShapes ==
    {bt \in (1 .. MaxDpoTokens) \X (1 .. MaxDpoTokens) : bt[1] * bt[2] <= MaxDpoTokens}

\* The model that gets wrapped: a vocabulary of two tokens.
DpoModels ==
    [vocabulary_size : {2}, dim_embed : {2}, max_length : {MaxContext},
     num_head : {2}, num_layer : {1}]

\* A model has been constructed (and trained); no wrapper yet.
DpoInit ==
    /\ model \in DpoModels
    /\ pc = "model"
    /\ err = "none"
    /\ heap = <<ParamTable(0)>>
    /\ aligned_model = 0 /\ reference_model = 0 /\ beta = 0
    /\ positive_weight = 0 /\ negative_weight = 0 /\ snapshot = <<>>
    /\ updates = 0 /\ dpo_out = <<>>
    /\ GenIdle
    /\ FwdIdle
    /\ BlockIdle

\* DpoWrapper(model, beta, positive_weight)
DpoConstruct ==
    /\ pc = "model"
    /\ \E b \in Betas, pw \in PositiveWeights :
          LET copy == DeepCopy(heap, 1)
          IN  /\ aligned_model' = 1
              /\ beta' = b
              /\ positive_weight' = pw
              /\ negative_weight' = Scale - pw
              /\ heap' = copy.heap
              /\ reference_model' = copy.addr
              /\ snapshot' = heap[1]
    /\ pc' = "wrapped"
    /\ UNCHANGED <<model, err, updates, dpo_out, genVars, fwdVars, blockVars>>

\* What DpoWrapper.forward computes from the four per-example losses: those
\* of the aligned model (pos, neg) and of the reference model (ref_pos, ref_neg).
DpoResults(B, T, pos, neg, ref_pos, ref_neg) ==
    LET positive_reward == PositiveReward(pos, ref_pos)
        negative_reward == NegativeReward(neg, ref_neg)
    IN  LET reward_margin == RewardMargin(positive_weight, negative_weight,
                                          positive_reward, negative_reward)
        IN  [B |-> B, T |-> T,
             positive_loss |-> pos,
             negative_loss |-> neg,
             reference_positive_loss |-> ref_pos,
             reference_negative_loss |-> ref_neg,
             reward_margin |-> reward_margin,
             returned |-> <<DpoLoss(beta, reward_margin),
                            Frac(SumSeq(reward_margin), Scale * Len(reward_margin))>>]

\* DpoWrapper.forward(positive_token_ids, positive_labels,
\*                    negative_token_ids, negative_labels)
DpoForward ==
    /\ pc = "wrapped"
    /\ \E bt \in DpoShapes :
       \E positive_token_ids \in BatchesOver(model.vocabulary_size, bt[1], bt[2]),
          positive_labels \in BatchesOver(model.vocabulary_size, bt[1], bt[2]),
          negative_token_ids \in BatchesOver(model.vocabulary_size, bt[1], bt[2]),
          negative_labels \in BatchesOver(model.vocabulary_size, bt[1], bt[2]) :
       \E pos \in {Forward(model, heap[aligned_model],
                           positive_token_ids, positive_labels, FALSE)},
          neg \in {Forward(model, heap[aligned_model],
                           negative_token_ids, negative_labels, FALSE)},
          ref_pos \in {Forward(model, heap[reference_model],
                               positive_token_ids, positive_labels, FALSE)},
          ref_neg \in {Forward(model, heap[reference_model],
                               negative_token_ids, negative_labels, FALSE)} :
          IF pos.err # "none"
          THEN pc' = "raised" /\ err' = pos.err /\ UNCHANGED dpo_out
          ELSE /\ dpo_out' = <<DpoResults(bt[1], bt[2], pos.loss.val, neg.loss.val,
                                          ref_pos.loss.val, ref_neg.loss.val)>>
               /\ pc' = "forwarded"
               /\ UNCHANGED err
    /\ UNCHANGED <<model, heap, aligned_model, reference_model, beta,
                   positive_weight, negative_weight, snapshot, updates,
                   genVars, fwdVars, blockVars>>

\* loss.backward(); optimizer.step() of an optimizer built over the
\* parameters of the model that was wrapped: they take new values, and the
\* tensors of the finished iteration are dropped.
OptimizerStep ==
    /\ pc = "forwarded"
    /\ updates < MaxUpdates
    /\ \E p \in ParamTables \ {heap[aligned_model]} :
          heap' = [heap EXCEPT ![aligned_model] = p]
    /\ updates' = updates + 1
    /\ dpo_out' = <<>>
    /\ pc' = "wrapped"
    /\ UNCHANGED <<model, err, aligned_model, reference_model, beta,
                   positive_weight, negative_weight, snapshot, genVars, fwdVars, blockVars>>

\* The caller drops the loss and the reward margin without an update, as an
\* evaluation loop does.
DropOutputs ==
    /\ pc = "forwarded"
    /\ dpo_out' = <<>>
    /\ pc' = "wrapped"
    /\ UNCHANGED <<model, err, heap, aligned_model, reference_model, beta,
                   positive_weight, negative_weight, snapshot, updates,
                   genVars, fwdVars, blockVars>>

DpoNext == DpoConstruct \/ DpoForward \/ OptimizerStep \/ DropOutputs

SpecDpo == DpoInit /\ [][DpoNext]_vars

(***************************************************************************)
(* Construction: TutorialLLM.__init__ builds num_layer TranformerBlocks,   *)
(* each with a MultiHeadAttention of num_head heads of head_size           *)
(* dimensions (Block.__init__ in src/run.py computes the same head_size).  *)
(***************************************************************************)
\* head_size = dim_embed // num_heads
HeadSize(dim_embed, num_heads) == dim_embed \div num_heads

\* TranformerBlock.__init__: the sizes of the layers of one block.
TranformerBlockInit(dim_embed, num_heads, max_length) ==
    LET head_size == HeadSize(dim_embed, num_heads)
    IN  [head_size |-> head_size,
         num_heads |-> num_heads,
         \* MultiHeadAttention.project = nn.Linear(head_size * num_heads, dim_embed)
         project_in |-> head_size * num_heads,
         project_out |-> dim_embed,
         tril |-> <<max_length, max_length>>]

\* The arguments the constructor is called with; every head gets at least
\* one dimension.
CtorArgs ==
    {a \in [vocabulary_size : {MaxVocab}, dim_embed : 1 .. MaxDimEmbed,
            max_length : 1 .. MaxContext, num_head : 1 .. MaxHeads,
            num_layer : 0 .. MaxLayers] : a.num_head <= a.dim_embed}

CtorInit ==
    /\ model = <<>>
    /\ pc = "construct"
    /\ err = "none"
    /\ ctor_args \in CtorArgs
    /\ attn_args = <<>>
    /\ attn_out = <<>>
    /\ GenIdle
    /\ FwdIdle
    /\ DpoIdle

\* TutorialLLM(vocabulary_size, dim_embed, max_length, num_head, num_layer,
\* device): no statement of any __init__ involved raises for these arguments.
Construct ==
    /\ pc = "construct"
    /\ model' = [vocabulary_size |-> ctor_args.vocabulary_size,
                 dim_embed |-> ctor_args.dim_embed,
                 max_length |-> ctor_args.max_length,
                 num_head |-> ctor_args.num_head,
                 num_layer |-> ctor_args.num_layer,
                 transformer_blocks |->
                     [l \in 1 .. ctor_args.num_layer |->
                         TranformerBlockInit(ctor_args.dim_embed, ctor_args.num_head,
                                             ctor_args.max_length)]]
    /\ pc' = "constructed"
    /\ UNCHANGED <<err, genVars, fwdVars, dpoVars, blockVars>>

CtorNext == Construct

SpecCtor == CtorInit /\ [][CtorNext]_vars

(***************************************************************************)
(* The attention weights of one AttentionHead (Head in src/run.py) for one *)
(* sequence of T positions.  With head_size 1 the query and the key of a   *)
(* position are one number each and the score of (i, j) is their product;  *)
(* the scaling by dim_embed ** -0.5 keeps a score finite and is left out.  *)
(* Of a softmax weight the model keeps whether it is zero, positive or nan.*)
(***************************************************************************)
\* torch.triu: the upper triangle kept in place of the lower one.
Triu(n) == [i \in 1 .. n |-> [j \in 1 .. n |-> IF j >= i THEN 1 ELSE 0]]

\* torch.tril(torch.ones(max_length, max_length))
Tril(n) == [i \in 1 .. n |-> [j \in 1 .. n |-> IF j <= i THEN 1 ELSE 0]]

\* m[:T, :T] of a square matrix m
SliceSquare(m, T) ==
    [i \in 1 .. Min(T, Len(m)) |-> [j \in 1 .. Min(T, Len(m)) |-> m[i][j]]]

\* query @ key.transpose(-2, -1)
Scores(query, key) ==
    [i \in 1 .. Len(query) |-> [j \in 1 .. Len(key) |-> query[i] * key[j]]]

\* A mask can be applied to (T, T) scores when it is (T, T) or (1, 1).
MaskFits(mask, T) == Len(mask) = T \/ Len(mask) = 1

\* The entry of a mask for (i, j), a (1, 1) mask being broadcast.
MaskAt(mask, i, j) == IF Len(mask) = 1 THEN mask[1][1] ELSE mask[i][j]

\* weights.masked_fill(mask == 0, float('-inf'))
MaskedFill(weights, mask) ==
    [i \in 1 .. Len(weights) |-> [j \in 1 .. Len(weights) |->
        IF MaskAt(mask, i, j) = 0
        THEN [finite |-> FALSE, val |-> 0]
        ELSE [finite |-> TRUE, val |-> weights[i][j]]]]

\* F.softmax(row, dim=-1): exp(-inf) is exactly 0, every finite score gets a
\* positive weight, and a row of -inf only gives nan (0 / 0).
SoftmaxRow(row) ==
    IF \A j \in 1 .. Len(row) : ~row[j].finite
    THEN [j \in 1 .. Len(row) |-> "nan"]
    ELSE [j \in 1 .. Len(row) |-> IF row[j].finite THEN "positive" ELSE "zero"]

\* The heads whose weights are computed.
AttnModels ==
    [vocabulary_size : {MaxVocab}, dim_embed : {2}, max_length : 1 .. MaxContext,
     num_head : {2}, num_layer : {1}]

AttnInit ==
    /\ model \in AttnModels
    /\ pc = "attention"
    /\ err = "none"
    /\ \E T \in 1 .. MaxPromptLen :
          attn_args \in [query : [1 .. T -> -1 .. 1], key : [1 .. T -> -1 .. 1]]
    /\ attn_out = <<>>
    /\ ctor_args = <<>>
    /\ GenIdle
    /\ FwdIdle
    /\ DpoIdle

\* AttentionHead.forward up to the softmax.
AttnForward ==
    /\ pc = "attention"
    /\ LET T == Len(attn_args.query)
           mask == SliceSquare(Tril(model.max_length), T)
       IN  IF ~MaskFits(mask, T)
           THEN pc' = "raised" /\ err' = "RuntimeError: shape" /\ UNCHANGED attn_out
           ELSE /\ attn_out' =
                     <<[masked |-> [i \in 1 .. T |-> [j \in 1 .. T |->
                                       MaskAt(mask, i, j) = 0]],
                        weights |-> [i \in 1 .. T |->
                            SoftmaxRow(MaskedFill(Scores(attn_args.query,
                                                         attn_args.key), mask)[i])]]>>
                /\ pc' = "returned"
                /\ UNCHANGED err
    /\ UNCHANGED <<model, ctor_args, attn_args, genVars, fwdVars, dpoVars>>

AttnNext == AttnForward

SpecAttn == AttnInit /\ [][AttnNext]_vars

(***************************************************************************)
(* Properties of generate, checked under SpecGen.                          *)
(***************************************************************************)
\* The tokens drawn for row b, in sampling order.
SampledRow(b) == [i \in 1 .. Len(sampled) |-> sampled[i][b]]

\* The last n tokens of a row.
LastTokens(row, n) == SubSeq(row, Len(row) - n + 1, Len(row))

\* C1: at every step of generate and at return the running sequence is at
\* most max_new_tokens longer than the prompt, whatever tokens are sampled.
C1_LengthBounded ==
    /\ \A b \in DOMAIN token_ids :
           Len(token_ids[b]) <= Len(prompt[b]) + max_new_tokens
    /\ pc = "returned" =>
           \A b \in DOMAIN result : Len(result[b]) <= Len(prompt[b]) + max_new_tokens

\* A run that used up all its iterations: the bound of C1 is reached.
C1_Witness ==
    /\ pc = "returned"
    /\ max_new_tokens >= 2
    /\ Len(result[1]) = Len(prompt[1]) + max_new_tokens

\* C2: once a sampled token equal to 0 has been appended, no further forward
\* pass is run and no further token is appended (a 0 among the generated
\* tokens is the last one).
C2_HaltsAfterEos ==
    [][(sampled # <<>> /\ \E b \in DOMAIN token_ids : sampled[Len(sampled)][b] = 0)
         => /\ token_ids' = token_ids
            /\ sampled' = sampled
            /\ forward_calls' = forward_calls]_vars

\* A run of one sequence stopped by a sampled 0 before its iterations ran out.
C2_Witness ==
    /\ pc = "returned"
    /\ Len(sampled) >= 2
    /\ Len(sampled) < max_new_tokens
    /\ sampled[Len(sampled)][1] = 0

\* C3: the running sequence, and the sequence returned, is the whole prompt
\* followed by every sampled token in sampling order, a terminal 0 included.
C3_PromptThenSampled ==
    /\ \A b \in DOMAIN token_ids : token_ids[b] = prompt[b] \o SampledRow(b)
    /\ pc = "returned" =>
           /\ DOMAIN result = DOMAIN prompt
           /\ \A b \in DOMAIN result : result[b] = prompt[b] \o SampledRow(b)

\* A returned run whose prompt is longer than max_length and that ended on a
\* sampled 0 after a token other than 0.
C3_Witness ==
    /\ pc = "returned"
    /\ Len(prompt[1]) > model.max_length
    /\ Len(sampled) >= 2
    /\ sampled[1][1] # 0
    /\ sampled[Len(sampled)][1] = 0

\* C4: every forward pass of generate receives exactly the last
\* min(current length, max_length) tokens of the running sequence, so its
\* input is never longer than max_length and the forward pass does not raise.
C4_ForwardGetsLastTokens ==
    [][forward_calls' # forward_calls =>
         /\ DOMAIN token_ids_available' = DOMAIN token_ids
         /\ \A b \in DOMAIN token_ids :
                /\ token_ids_available'[b] =
                       LastTokens(token_ids[b], Min(Len(token_ids[b]), model.max_length))
                /\ Len(token_ids_available'[b]) <= model.max_length
         /\ err' \notin {"IndexError", "RuntimeError: shape"}]_vars

\* A run with a prompt longer than max_length that went through several
\* forward passes, each on a window of max_length tokens.
C4_Witness ==
    /\ pc = "returned"
    /\ forward_calls >= 2
    /\ Len(prompt[1]) > model.max_length
    /\ Len(token_ids_available[1]) = model.max_length
    /\ token_ids_available[1] # LastTokens(prompt[1], model.max_length)

\* C5: for every batch size B >= 1 and max_new_tokens >= 1 generate returns
\* its batch without raising an error.
C5_GenerateNeverRaises == pc # "raised"

(***************************************************************************)
(* Properties of forward, checked under SpecFwd.                           *)
(***************************************************************************)
\* C6: for a batch of shape (B, T) with T <= max_length, forward returns
\* logits of shape (B, T, vocabulary_size), with and without labels, and a
\* loss exactly when labels are supplied.
C6_LogitsShape ==
    (pc # "forward" /\ Len(fwd_args.token_ids[1]) <= model.max_length) =>
        /\ pc = "returned"
        /\ fwd_out[1].logits_shape =
               <<Len(fwd_args.token_ids), Len(fwd_args.token_ids[1]),
                 model.vocabulary_size>>
        /\ (fwd_out[1].loss.kind = "None") <=> (fwd_args.labels = NoLabels)

\* The outputs of the two calls: reduction flag on, reduction flag off.
FwdReduced == IF fwd_args.reduce_loss THEN fwd_out[1] ELSE fwd_out[2]
FwdPerExample == IF fwd_args.reduce_loss THEN fwd_out[2] ELSE fwd_out[1]

\* C11: for the same batch and labels, the loss returned with the reduction
\* flag on is the arithmetic mean of the B * T per-example losses returned
\* with the flag off.
C11_ReducedIsMean ==
    (Len(fwd_out) = 2 /\ fwd_args.labels # NoLabels) =>
        LET n == Len(fwd_args.token_ids) * Len(fwd_args.token_ids[1])
        IN  /\ FwdPerExample.loss.kind = "vector"
            /\ Len(FwdPerExample.loss.val) = n
            /\ FwdReduced.loss.kind = "scalar"
            /\ FwdReduced.loss.val[1].den > 0
            /\ FwdReduced.loss.val[1].num * n =
                   SumSeq(FwdPerExample.loss.val) * FwdReduced.loss.val[1].den

\* Both calls made on a batch of two examples whose losses differ and are
\* not zero, so that the mean is none of them.
C11_Witness ==
    /\ Len(fwd_out) = 2
    /\ fwd_args.labels # NoLabels
    /\ Len(FwdPerExample.loss.val) = 2
    /\ FwdPerExample.loss.val[1] # FwdPerExample.loss.val[2]
    /\ FwdReduced.loss.val[1].den = 2

(***************************************************************************)
(* Properties of DpoWrapper, checked under SpecDpo.                        *)
(***************************************************************************)
\* C7: each of the four losses DpoWrapper.forward gets with the reduction
\* flag off has one entry per sequence of the batch (B entries for a batch
\* of shape (B, T)), and so has reward_margin.
C7_OneLossPerSequence ==
    dpo_out # <<>> =>
        LET o == dpo_out[1]
        IN  /\ Len(o.positive_loss) = o.B
            /\ Len(o.negative_loss) = o.B
            /\ Len(o.reference_positive_loss) = o.B
            /\ Len(o.reference_negative_loss) = o.B
            /\ Len(o.reward_margin) = o.B

\* C8: once the wrapper is built, the parameters of the reference model are
\* those the wrapped model had at construction, in storage of their own,
\* whatever forward calls and optimizer steps follow.
C8_ReferenceFrozen ==
    pc \in {"wrapped", "forwarded", "raised"} =>
        /\ reference_model # aligned_model
        /\ heap[reference_model] = snapshot

\* A forward call made after an optimizer step has moved the aligned model
\* away from its parameters at construction.
C8_Witness ==
    /\ pc = "forwarded"
    /\ updates >= 1
    /\ heap[aligned_model] # snapshot
    /\ dpo_out[1].positive_loss # dpo_out[1].reference_positive_loss

\* C9: per example, positive_reward = reference_positive_loss - positive_loss,
\* negative_reward = negative_loss - reference_negative_loss, reward_margin =
\* positive_weight * positive_reward + (1 - positive_weight) * negative_reward
\* (weights in tenths), and the second result is the mean of reward_margin.
C9_RewardMargin ==
    dpo_out # <<>> =>
        LET o == dpo_out[1]
            n == Len(o.positive_loss)
            margin == [i \in 1 .. n |->
                positive_weight * (o.reference_positive_loss[i] - o.positive_loss[i])
                + (Scale - positive_weight)
                    * (o.negative_loss[i] - o.reference_negative_loss[i])]
        IN  /\ o.reward_margin = margin
            /\ o.returned[2].num * (Scale * n) = SumSeq(margin) * o.returned[2].den
            /\ o.returned[2].den > 0

\* A call on two-token batches where both rewards are non-zero and differ and
\* both weights count.
C9_Witness ==
    /\ pc = "forwarded"
    /\ positive_weight = 8
    /\ Len(dpo_out[1].reward_margin) = 2
    /\ dpo_out[1].positive_loss[1] # dpo_out[1].reference_positive_loss[1]
    /\ dpo_out[1].negative_loss[1] # dpo_out[1].reference_negative_loss[1]
    /\ dpo_out[1].reward_margin[1] # dpo_out[1].reward_margin[2]
    /\ dpo_out[1].returned[2].num # 0

\* C10: a forward call made before any update of the aligned model returns
\* reward_margin 0 and loss -log(0.5) (693147 millionths), for every batch
\* pair, beta and positive_weight.
C10_FreshWrapperZeroMargin ==
    (pc = "forwarded" /\ updates = 0) =>
        /\ dpo_out[1].returned[2] = [num |-> 0, den |-> 1]
        /\ dpo_out[1].returned[1] = [num |-> 693147, den |-> 1]

\* A first call on batches whose losses are neither zero nor alike.
C10_Witness ==
    /\ pc = "forwarded"
    /\ updates = 0
    /\ beta = 5
    /\ positive_weight = 12
    /\ Len(dpo_out[1].positive_loss) = 2
    /\ dpo_out[1].positive_loss[1] # 0
    /\ dpo_out[1].positive_loss # dpo_out[1].negative_loss

(***************************************************************************)
(* Properties of construction, checked under SpecCtor.                     *)
(***************************************************************************)
\* C12: constructing a model with dim_embed not divisible by num_head signals
\* a configuration error and produces no model.
C12_IndivisibleRejected ==
    (pc # "construct" /\ ctor_args.dim_embed % ctor_args.num_head # 0) =>
        pc = "raised"

(***************************************************************************)
(* Properties of DpoWrapper construction, checked under SpecDpo.           *)
(***************************************************************************)
\* C13: a positive_weight outside [0, 1] is refused at construction, so in
\* every wrapper that exists positive_weight and negative_weight lie in
\* [0, 1] (0 .. Scale tenths).
C13_WeightsInUnitInterval ==
    pc \in {"wrapped", "forwarded"} =>
        /\ positive_weight \in 0 .. Scale
        /\ negative_weight \in 0 .. Scale

(***************************************************************************)
(* Properties of the causal mask, checked under SpecAttn.                  *)
(***************************************************************************)
\* C14: for T <= max_length and every query position i <= T, key position j
\* is masked exactly when j > i; a masked position gets weight exactly zero,
\* every j <= i (i itself included) stays unmasked with a weight of its own,
\* so no row is masked entirely.
C14_CausalMask ==
    (pc # "attention" /\ Len(attn_args.query) <= model.max_length) =>
        /\ pc = "returned"
        /\ \A i \in 1 .. Len(attn_args.query) :
               /\ \A j \in 1 .. Len(attn_args.query) :
                      /\ attn_out[1].masked[i][j] <=> (j > i)
                      /\ (j > i) => attn_out[1].weights[i][j] = "zero"
                      /\ (j <= i) => attn_out[1].weights[i][j] = "positive"
               /\ \E j \in 1 .. Len(attn_args.query) : ~attn_out[1].masked[i][j]

\* The weights of two positions under a mask of their size, from non-zero
\* queries and keys: the first position cannot see the second.
C14_Witness ==
    /\ pc = "returned"
    /\ Len(attn_args.query) = 2
    /\ \A i \in 1 .. 2 : attn_args.query[i] # 0 /\ attn_args.key[i] # 0
    /\ attn_out[1].weights[1][2] = "zero"
    /\ attn_out[1].weights[2][1] = "positive"

(***************************************************************************)
(* Termination and the stop test of generate.                              *)
(***************************************************************************)
\* C15 (under SpecGenFair): every call of generate comes to an end, having
\* run at most max_new_tokens iterations (the counters never decrease), and
\* when it has returned with fewer than max_new_tokens new tokens, the last
\* token it appended is 0.
C15_TerminatesStopsOnlyOnEos ==
    <>(/\ pc \in {"returned", "raised"}
       /\ iter <= max_new_tokens
       /\ forward_calls <= max_new_tokens
       /\ Len(sampled) <= max_new_tokens
       /\ (pc = "returned" /\ Len(sampled) < max_new_tokens) =>
              /\ sampled # <<>>
              /\ sampled[Len(sampled)][1] = 0)

\* A run cut short by a 0 drawn in its first iteration.
C15_Witness ==
    /\ pc = "returned"
    /\ max_new_tokens = MaxNewTokens
    /\ Len(sampled) = 1
    /\ forward_calls = 1
    /\ result[1] = Append(prompt[1], 0)

\* C16: with max_new_tokens >= 1 a finished call has run a forward pass and
\* appended at least one token to every row, whatever the prompt holds, a 0
\* anywhere in it or at its end included.
C16_PromptEosIgnored ==
    (pc \in {"returned", "raised"} /\ max_new_tokens >= 1) =>
        /\ forward_calls >= 1
        /\ sampled # <<>>
        /\ \A b \in DOMAIN token_ids : Len(token_ids[b]) >= Len(prompt[b]) + 1

\* A run on a prompt that ends with 0 and that went on sampling after a first
\* token other than 0.
C16_Witness ==
    /\ pc = "returned"
    /\ Len(prompt[1]) >= 2
    /\ prompt[1][Len(prompt[1])] = 0
    /\ Len(sampled) >= 2
    /\ sampled[1][1] # 0

=============================================================================
